---- MODULE Spec2Model ----
(***************************************************************************)
(* AutoVault on Massa: the vault state, the deposit / withdraw / toggle    *)
(* handlers, the auto-compound interval timer and the localStorage         *)
(* snapshot of src/main.ts.                                                *)
(*                                                                         *)
(* Numbers.  A JavaScript number is modelled as a record [k, c]:           *)
(*   k = "num"   a finite number, c its coefficients <<c0, c1, ..., cDeg>> *)
(*               of the polynomial c0 + c1*RHO + ... + cDeg*RHO^Deg, where *)
(*               RHO stands for the positive real                          *)
(*                 (1/10) * (1/100) * COMPOUND_RATE                         *)
(*                   * (AUTO_COMPOUND_INTERVAL / (365*24*60*60*1000))      *)
(*               (about 3.2e-13), so that one accrual tick is exact:       *)
(*               compoundAmount = balance * apy * RHO.  The coefficients   *)
(*               stay far below 1/RHO, so the order of two finite numbers  *)
(*               is the lexicographic order of their coefficients.         *)
(*   k = "inf" / "ninf" / "nan"   +Infinity, -Infinity, NaN                *)
(*   k = "null"  the JSON / JavaScript null (what JSON.stringify writes    *)
(*               for a non-finite number, read back by JSON.parse)         *)
(* Finite arithmetic is exact (rounding and overflow of IEEE doubles are   *)
(* not modelled); the non-finite values follow IEEE 754 / ECMAScript.      *)
(* apy is held in tenths of a percent, so BASE_APY = 12.5 is 125.          *)
(*                                                                         *)
(* Specifications.  Spec: the vault with every amount parseFloat can give. *)
(* SpecFinite: finite amounts only.  LiveSpec: Spec with a fair            *)
(* self-stopping tick.  SpecStore: finite amounts and a store that may     *)
(* hold content no saveState() wrote.  SpecFetch: the balance query        *)
(* (fetchBalance / handleFetchBalance), which shares no state with the     *)
(* vault.                                                                  *)
(***************************************************************************)
EXTENDS Integers, Sequences, FiniteSets, TLC

\* ---------------------------------------------------------------- bounds
Deg == 1            \* highest power of RHO kept (accrual ticks in a row)
MaxUnits == 2       \* largest whole-unit part of the balance
MaxRequests == 2    \* most fetchBalance calls in flight at once

\* ------------------------------------------------------------- constants
BASE_APY == 125          \* 12.5 percent, in tenths of a percent
NullHandle == 0         \* autoCompoundInterval = null

VARIABLES
    vaultState,            \* [balance, earnings, apy, autoCompound]
    autoCompoundInterval,  \* NullHandle or the handle setInterval returned
    lastOperationId,       \* "" or the identifier of the last operation
    timers,                \* the interval timers live in the browser
    store,                 \* localStorage[STORAGE_KEY]: <<>> or <<snapshot>>
    lastCall,              \* history: the handler that ran last and its outcome
    addressInput,          \* elements.addressInput.value
    fetchBtnDisabled,      \* elements.fetchBalanceBtn.disabled
    requests,              \* fetchBalance calls in flight, by what they await
    walletBalance          \* elements.walletBalance.textContent

fetchVars == <<addressInput, fetchBtnDisabled, requests, walletBalance>>

vars == <<vaultState, autoCompoundInterval, lastOperationId, timers, store,
          lastCall, addressInput, fetchBtnDisabled, requests, walletBalance>>

\* ------------------------------------------------------------ JS numbers
Len0 == Deg + 1

ZeroCoef == [i \in 1..Len0 |-> 0]

Num(n) == [k |-> "num", c |-> [i \in 1..Len0 |-> IF i = 1 THEN n ELSE 0]]

Inf == [k |-> "inf", c |-> ZeroCoef]

NInf == [k |-> "ninf", c |-> ZeroCoef]

NaN == [k |-> "nan", c |-> ZeroCoef]

Null == [k |-> "null", c |-> ZeroCoef]

Rho == [k |-> "num", c |-> [i \in 1..Len0 |-> IF i = 2 THEN 1 ELSE 0]]

\* ToNumber: null converts to +0, a number is itself.
ToNumber(x) == IF x.k = "null" THEN Num(0) ELSE x

IsNaN(x) == ToNumber(x).k = "nan"

LexLess(a, b) ==
    \E i \in 1..Len0 : a[i] < b[i] /\ \A j \in 1..(i - 1) : a[j] = b[j]

\* x < y of ECMAScript on numbers (false when either side is NaN).
Less(x, y) ==
    LET a == ToNumber(x)
        b == ToNumber(y)
    IN  CASE a.k = "nan" \/ b.k = "nan" -> FALSE
          [] a.k = "ninf" -> b.k # "ninf"
          [] a.k = "inf" -> FALSE
          [] b.k = "inf" -> TRUE
          [] b.k = "ninf" -> FALSE
          [] OTHER -> LexLess(a.c, b.c)

NumEq(x, y) ==
    LET a == ToNumber(x)
        b == ToNumber(y)
    IN  a.k # "nan" /\ b.k # "nan" /\ a = b

Leq(x, y) == Less(x, y) \/ NumEq(x, y)

Gt(x, y) == Less(y, x)

Neg(x) ==
    LET a == ToNumber(x)
    IN  CASE a.k = "nan" -> NaN
          [] a.k = "inf" -> NInf
          [] a.k = "ninf" -> Inf
          [] OTHER -> [k |-> "num", c |-> [i \in 1..Len0 |-> 0 - a.c[i]]]

\* x + y of ECMAScript on numbers.
Add(x, y) ==
    LET a == ToNumber(x)
        b == ToNumber(y)
    IN  CASE a.k = "nan" \/ b.k = "nan" -> NaN
          [] a.k = "inf" -> IF b.k = "ninf" THEN NaN ELSE Inf
          [] a.k = "ninf" -> IF b.k = "inf" THEN NaN ELSE NInf
          [] b.k \in {"inf", "ninf"} -> b
          [] OTHER -> [k |-> "num", c |-> [i \in 1..Len0 |-> a.c[i] + b.c[i]]]

Sub(x, y) == Add(x, Neg(y))

\* -1, 0 or 1: the sign of a finite number.
Sign(c) == IF LexLess(c, ZeroCoef) THEN -1 ELSE IF LexLess(ZeroCoef, c) THEN 1 ELSE 0

RECURSIVE Conv(_, _, _, _)
\* sum over i = 1..n of a[i] * b[k + 1 - i]: coefficient k of the product.
Conv(a, b, k, n) ==
    IF n = 0 THEN 0
    ELSE (IF k + 1 - n >= 1 THEN a[n] * b[k + 1 - n] ELSE 0) + Conv(a, b, k, n - 1)

\* The product of two finite numbers has no power of RHO above Deg.
Fits(a, b) ==
    \A i, j \in 1..Len0 : (i - 1) + (j - 1) > Deg => a[i] * b[j] = 0

\* x * y of ECMAScript on numbers.
Mul(x, y) ==
    LET a == ToNumber(x)
        b == ToNumber(y)
        sgn(v) == CASE v.k = "inf" -> 1 [] v.k = "ninf" -> -1 [] OTHER -> Sign(v.c)
    IN  CASE a.k = "nan" \/ b.k = "nan" -> NaN
          [] a.k \in {"inf", "ninf"} \/ b.k \in {"inf", "ninf"} ->
                IF sgn(a) * sgn(b) = 0 THEN NaN
                ELSE IF sgn(a) * sgn(b) > 0 THEN Inf ELSE NInf
          [] OTHER -> [k |-> "num", c |-> [i \in 1..Len0 |-> Conv(a.c, b.c, i, i)]]

\* ------------------------------------------------------------ vault state
Fields == {"balance", "earnings", "apy", "autoCompound"}

DefaultVaultState ==
    [balance |-> Num(0), earnings |-> Num(0), apy |-> Num(BASE_APY),
     autoCompound |-> FALSE]

NoOperationId == ""

\* JSON.stringify of a number: a non-finite number is written as null.
ToJSON(x) == IF x.k \in {"inf", "ninf", "nan"} THEN Null ELSE x

\* JSON.stringify(vaultState): the snapshot text, as the object it parses to.
Stringify(vs) ==
    [balance |-> ToJSON(vs.balance), earnings |-> ToJSON(vs.earnings),
     apy |-> ToJSON(vs.apy), autoCompound |-> vs.autoCompound]

\* Mutant: the spread in the other order, { ...parsed, ...vaultState }.
OverlayDefaultsWin(vs, parsed) == vs

\* { ...vaultState, ...parsed }: every own property of parsed overwrites.
Overlay(vs, parsed) ==
    [f \in Fields |-> IF f \in DOMAIN parsed THEN parsed[f] ELSE vs[f]]

\* A stored text that JSON.parse throws a SyntaxError on.
Unparseable == [syntaxError |-> TRUE]

\* Mutant: a SyntaxError wipes the number fields instead of leaving them.
LoadStateWipes(vs, st) ==
    IF st = <<>> THEN vs
    ELSE IF "syntaxError" \in DOMAIN st[1]
         THEN [vs EXCEPT !.balance = Null, !.earnings = Null, !.apy = Null]
         ELSE Overlay(vs, st[1])

\* loadState(): getItem, JSON.parse, spread over the current vaultState; a
\* missing item or a SyntaxError (caught, logged) leaves vaultState alone.
LoadState(vs, st) ==
    IF st = <<>> \/ "syntaxError" \in DOMAIN st[1] THEN vs ELSE Overlay(vs, st[1])

\* Mutant: a failed write loses the item.
SaveStateLosesItem(vs, st, writeOk) == IF writeOk THEN <<Stringify(vs)>> ELSE <<>>

\* saveState(): setItem either writes the snapshot or throws (caught, logged).
SaveState(vs, st, writeOk) == IF writeOk THEN <<Stringify(vs)>> ELSE st

\* updateUI(): x.toFixed(..) throws a TypeError when x is null.
UpdateUIThrows(vs) ==
    vs.balance.k = "null" \/ vs.earnings.k = "null" \/ vs.apy.k = "null"

\* generateOperationId(type): TYPE-timestamp-random.  No modelled code reads
\* the identifier, so the timestamp and random parts are one fixed token.
GenerateOperationId(type) ==
    IF type = "deposit" THEN "DEPOSIT-t-r" ELSE "WITHDRAW-t-r"

\* window.setInterval returns a positive handle that no live timer has.
FreshHandle(ts) ==
    IF ts = {} THEN 1 ELSE 1 + (CHOOSE h \in ts : \A g \in ts : g <= h)

\* The part of the program the scheduler functions read and write:
\* m = [vs, interval, timers, alert].
Machine(vs, interval, ts) ==
    [vs |-> vs, interval |-> interval, timers |-> ts, alert |-> ""]

\* Mutant: no "already running" early return.
StartAutoCompoundAgain(m) ==
    IF Leq(m.vs.balance, Num(0))
    THEN [m EXCEPT !.alert = "Please deposit funds to enable auto-compounding",
                   !.vs = [m.vs EXCEPT !.autoCompound = FALSE]]
    ELSE [m EXCEPT !.interval = FreshHandle(m.timers),
                   !.timers = m.timers \cup {FreshHandle(m.timers)}]

StartAutoCompound(m) ==
    IF m.interval # NullHandle THEN m
    ELSE IF Leq(m.vs.balance, Num(0))
         THEN [m EXCEPT !.alert = "Please deposit funds to enable auto-compounding",
                        !.vs = [m.vs EXCEPT !.autoCompound = FALSE]]
         ELSE [m EXCEPT !.interval = FreshHandle(m.timers),
                        !.timers = m.timers \cup {FreshHandle(m.timers)}]

\* Mutant: the handle is forgotten but clearInterval is not called.
StopAutoCompoundFlagOnly(m) == [m EXCEPT !.interval = NullHandle]

StopAutoCompound(m) ==
    IF m.interval # NullHandle
    THEN [m EXCEPT !.timers = m.timers \ {m.interval}, !.interval = NullHandle]
    ELSE m

\* annualYield * (COMPOUND_RATE * (AUTO_COMPOUND_INTERVAL / msPerYear)), with
\* annualYield = balance * (apy / 100); the constant factors are RHO.
CompoundAmount(vs) == Mul(Mul(vs.balance, vs.apy), Rho)

\* compoundEarnings() up to saveState: the self-stop branch returns first.
SelfStops(vs) == Leq(vs.balance, Num(0))

\* Mutant: on a non-positive balance the tick clears the flag but leaves
\* the timer running.
CompoundEarningsKeepsTimer(m) ==
    IF SelfStops(m.vs)
    THEN [m EXCEPT !.vs = [m.vs EXCEPT !.autoCompound = FALSE]]
    ELSE [m EXCEPT !.vs = [m.vs EXCEPT
                              !.earnings = Add(m.vs.earnings, CompoundAmount(m.vs)),
                              !.balance = Add(m.vs.balance, CompoundAmount(m.vs))]]

\* Mutant: the tick credits the balance but not the earnings.
CompoundEarningsBalanceOnly(m) ==
    IF SelfStops(m.vs)
    THEN [StopAutoCompound(m) EXCEPT !.vs = [m.vs EXCEPT !.autoCompound = FALSE]]
    ELSE [m EXCEPT !.vs = [m.vs EXCEPT
                              !.balance = Add(m.vs.balance, CompoundAmount(m.vs))]]

CompoundEarnings(m) ==
    IF SelfStops(m.vs)
    THEN [StopAutoCompound(m) EXCEPT !.vs = [m.vs EXCEPT !.autoCompound = FALSE]]
    ELSE [m EXCEPT !.vs = [m.vs EXCEPT
                              !.earnings = Add(m.vs.earnings, CompoundAmount(m.vs)),
                              !.balance = Add(m.vs.balance, CompoundAmount(m.vs))]]

\* ------------------------------------------------------------- the inputs
\* parseFloat(amountInput.value): NaN, a finite number or an infinity.
FiniteAmounts == {Num(n) : n \in -1..1}

NonFiniteAmounts == {NaN, Inf, NInf}

AllAmounts == FiniteAmounts \cup NonFiniteAmounts

\* The user can also type the balance itself, digit for digit.
WithdrawAmounts(A) ==
    A \cup (IF vaultState.balance.k = "num" THEN {vaultState.balance} ELSE {})

RECURSIVE Pow(_, _)
Pow(b, e) == IF e = 0 THEN 1 ELSE b * Pow(b, e - 1)

\* The model keeps a finite number within MaxUnits whole units and within
\* the yield that MaxUnits units accrue: coefficient i at most
\* MaxUnits * BASE_APY^i.
InRange(x) ==
    x.k = "num" => \A i \in 1..Len0 : x.c[i] <= MaxUnits * Pow(BASE_APY, i - 1)

\* History: which handler ran, its input and the alert it raised ("" if none).
Call(op, amount, enabled, alert) ==
    [op |-> op, amount |-> amount, enabled |-> enabled, alert |-> alert]

\* --------------------------------------------------- requests in flight
\* The fetchBalance calls in flight: how many await fetch() and how many
\* await res.json().
NoRequests == [fetch |-> 0, json |-> 0]

InFlight(r) == r.fetch + r.json

\* The wallet balance element before any query has completed.
NoWalletBalance == ""

\* ------------------------------------------------------------------ Init
\* The first session: init() on an empty store leaves the defaults.
Init ==
    /\ vaultState = DefaultVaultState
    /\ autoCompoundInterval = NullHandle
    /\ lastOperationId = NoOperationId
    /\ timers = {}
    /\ store = <<>>
    /\ lastCall = Call("init", Null, FALSE, "")
    /\ addressInput = ""
    /\ fetchBtnDisabled = FALSE
    /\ requests = NoRequests
    /\ walletBalance = NoWalletBalance

\* ---------------------------------------------------------------- actions
\* isNaN(amount) || amount <= 0
InvalidAmount(amount) == IsNaN(amount) \/ Leq(amount, Num(0))

\* Mutant: the balance check is missing.
InsufficientNever(amount, balance) == FALSE

\* Mutant: the balance check lets one unit too much through.
InsufficientSlack(amount, balance) == Gt(amount, Add(balance, Num(1)))

\* amount > vaultState.balance
Insufficient(amount, balance) == Gt(amount, balance)

\* Mutant: deposit clears the earnings the way withdraw does.
DepositResetsEarnings(vs, amount) ==
    [vs EXCEPT !.balance = Add(@, amount), !.earnings = Num(0)]

\* vaultState.balance += amount
DepositEffect(vs, amount) == [vs EXCEPT !.balance = Add(@, amount)]

\* Mutant: withdraw forgets to reset the earnings.
WithdrawKeepsEarnings(vs, amount) == [vs EXCEPT !.balance = Sub(@, amount)]

\* Mutant: withdraw also puts apy back to BASE_APY.
WithdrawResetsApy(vs, amount) ==
    [vs EXCEPT !.balance = Sub(@, amount), !.earnings = Num(0),
               !.apy = Num(BASE_APY)]

\* vaultState.balance -= amount; vaultState.earnings = 0
WithdrawEffect(vs, amount) ==
    [vs EXCEPT !.balance = Sub(@, amount), !.earnings = Num(0)]

\* handleDeposit() with parseFloat(amountInput.value) = amount.
HandleDeposit(amount, writeOk) ==
    IF InvalidAmount(amount)
    THEN /\ lastCall' = Call("deposit", amount, FALSE, "Please enter a valid amount")
         /\ UNCHANGED <<vaultState, autoCompoundInterval, lastOperationId,
                        timers, store, fetchVars>>
    ELSE /\ InRange(DepositEffect(vaultState, amount).balance)
         /\ vaultState' = DepositEffect(vaultState, amount)
         /\ lastOperationId' = GenerateOperationId("deposit")
         /\ store' = SaveState(vaultState', store, writeOk)
         /\ lastCall' = Call("deposit", amount, FALSE, "")
         /\ UNCHANGED <<autoCompoundInterval, timers, fetchVars>>

\* handleWithdraw() with parseFloat(amountInput.value) = amount.
HandleWithdraw(amount, writeOk) ==
    IF InvalidAmount(amount)
    THEN /\ lastCall' = Call("withdraw", amount, FALSE, "Please enter a valid amount")
         /\ UNCHANGED <<vaultState, autoCompoundInterval, lastOperationId,
                        timers, store, fetchVars>>
    ELSE IF Insufficient(amount, vaultState.balance)
    THEN /\ lastCall' = Call("withdraw", amount, FALSE, "Insufficient balance")
         /\ UNCHANGED <<vaultState, autoCompoundInterval, lastOperationId,
                        timers, store, fetchVars>>
    ELSE /\ vaultState' = WithdrawEffect(vaultState, amount)
         /\ lastOperationId' = GenerateOperationId("withdraw")
         /\ store' = SaveState(vaultState', store, writeOk)
         /\ lastCall' = Call("withdraw", amount, FALSE, "")
         /\ UNCHANGED <<autoCompoundInterval, timers, fetchVars>>

\* handleAutoCompoundToggle() with autoCompoundToggle.checked = enabled.
HandleAutoCompoundToggle(enabled, writeOk) ==
    LET m0 == Machine([vaultState EXCEPT !.autoCompound = enabled],
                      autoCompoundInterval, timers)
        m1 == IF enabled THEN StartAutoCompound(m0) ELSE StopAutoCompound(m0)
    IN  /\ vaultState' = m1.vs
        /\ autoCompoundInterval' = m1.interval
        /\ timers' = m1.timers
        /\ store' = SaveState(m1.vs, store, writeOk)
        /\ lastCall' = Call("toggle", Null, enabled, m1.alert)
        /\ UNCHANGED <<lastOperationId, fetchVars>>

\* One firing of a live interval timer: its callback is compoundEarnings().
Tick(writeOk) ==
    LET m0 == Machine(vaultState, autoCompoundInterval, timers)
        m1 == CompoundEarnings(m0)
        stops == SelfStops(vaultState)
    IN  /\ timers # {}
        /\ stops \/ /\ Fits(ToNumber(vaultState.balance).c, Rho.c)
                     /\ InRange(m1.vs.balance)
                     /\ InRange(m1.vs.earnings)
        /\ vaultState' = m1.vs
        /\ autoCompoundInterval' = m1.interval
        /\ timers' = m1.timers
        /\ store' = IF stops THEN store ELSE SaveState(m1.vs, store, writeOk)
        /\ lastCall' = Call("tick", Null, FALSE, "")
        /\ UNCHANGED <<lastOperationId, fetchVars>>

\* The page is loaded again: a new document and script context (module
\* state at its initial values, no timers, no request in flight, the
\* elements as in the markup), then init().  An exception in updateUI()
\* ends init() before the scheduler is started.
Reload ==
    LET vs == LoadState(DefaultVaultState, store)
        m0 == Machine(vs, NullHandle, {})
        threw == UpdateUIThrows(vs)
        m1 == IF ~threw /\ vs.autoCompound THEN StartAutoCompound(m0) ELSE m0
    IN  /\ vaultState' = m1.vs
        /\ autoCompoundInterval' = m1.interval
        /\ timers' = m1.timers
        /\ lastOperationId' = NoOperationId
        /\ lastCall' = Call("init", Null, FALSE, m1.alert)
        /\ addressInput' = ""
        /\ fetchBtnDisabled' = FALSE
        /\ requests' = NoRequests
        /\ walletBalance' = NoWalletBalance
        /\ UNCHANGED store

Deposit(A) == \E amount \in A, writeOk \in BOOLEAN :
                 HandleDeposit(amount, writeOk)

Withdraw(A) == \E amount \in WithdrawAmounts(A), writeOk \in BOOLEAN :
                  HandleWithdraw(amount, writeOk)

Toggle == \E enabled \in BOOLEAN, writeOk \in BOOLEAN :
             HandleAutoCompoundToggle(enabled, writeOk)

TimerFires == \E writeOk \in BOOLEAN : Tick(writeOk)

Next ==
    \/ Deposit(AllAmounts)
    \/ Withdraw(AllAmounts)
    \/ Toggle
    \/ TimerFires
    \/ Reload

Spec == Init /\ [][Next]_vars

\* Only finite amounts are ever typed.
NextFinite ==
    \/ Deposit(FiniteAmounts)
    \/ Withdraw(FiniteAmounts)
    \/ Toggle
    \/ TimerFires
    \/ Reload

SpecFinite == Init /\ [][NextFinite]_vars

\* The event loop runs a due interval callback, so a live timer keeps firing
\* (WF of TimerFires).  Stated for the firing that finds balance <= 0, which
\* is what WF of TimerFires gives in the states where every firing is one.
SelfStopTick == SelfStops(vaultState) /\ TimerFires

LiveSpec == Spec /\ WF_vars(SelfStopTick)

\* -------------------------------------------------- foreign store content
\* localStorage outlives the page and is writable by anything of the same
\* origin (another tab, an older release, the developer tools), so init()
\* can find a text no saveState() of this program wrote: not JSON at all,
\* an object with fields missing, or fields whose values are not valid
\* vault values.  Each object is given as what JSON.parse makes of it.
ForeignSnapshots ==
    { Unparseable,
      [balance |-> Num(-1)],
      [autoCompound |-> TRUE],
      [balance |-> Num(1), autoCompound |-> TRUE],
      [apy |-> Num(50)],
      [balance |-> Num(1), earnings |-> Num(-1), apy |-> Num(50),
       autoCompound |-> FALSE] }

\* Something other than this page's saveState() sets the item.
ExternalWrite(snapshot) ==
    /\ store' = <<snapshot>>
    /\ lastCall' = Call("external", Null, FALSE, "")
    /\ UNCHANGED <<vaultState, autoCompoundInterval, lastOperationId, timers,
                   fetchVars>>

StorageWritten == \E snapshot \in ForeignSnapshots : ExternalWrite(snapshot)

\* Finite amounts, and a store that may hold foreign content.
NextStore ==
    \/ Deposit(FiniteAmounts)
    \/ Withdraw(FiniteAmounts)
    \/ Toggle
    \/ TimerFires
    \/ Reload
    \/ StorageWritten

SpecStore == Init /\ [][NextStore]_vars

\* ------------------------------------------------------ the balance query
vaultVars == <<vaultState, autoCompoundInterval, lastOperationId, timers, store>>

\* What the user can have typed into the address input.
Addresses == {"", " ", "AU1"}

\* String.prototype.trim on those values.
Trim(v) == IF v = " " THEN "" ELSE v

TypeAddress(v) ==
    /\ addressInput' = v
    /\ lastCall' = Call("type", Null, FALSE, "")
    /\ UNCHANGED <<vaultVars, fetchBtnDisabled, requests, walletBalance>>

\* How an awaited promise of fetchBalance settles: fetch() resolves with a
\* response or rejects; res.json() resolves with a result list, an empty or
\* missing result, an RPC error object, or rejects on a body that is not
\* JSON.
FetchOutcomes == {"response", "network error"}

JsonOutcomes == {"result", "empty", "rpc error", "parse error"}

Thrown == {"network error", "rpc error", "parse error"}

\* Mutant: the button is released on the normal returns only (no finally).
FetchBalanceDoneNoFinally(outcome) ==
    [disabled |-> outcome \in Thrown,
     alert |-> IF outcome \in Thrown THEN "Failed to fetch balance" ELSE "",
     text |-> IF outcome = "result" THEN "1.0000 MAS" ELSE "-- MAS"]

\* fetchBalance from the settled await to its return (catch, finally) and
\* the rest of handleFetchBalance: the button state, the notice raised and
\* the text put into the wallet balance element.
FetchBalanceDone(outcome) ==
    [disabled |-> FALSE,
     alert |-> IF outcome \in Thrown THEN "Failed to fetch balance" ELSE "",
     text |-> IF outcome = "result" THEN "1.0000 MAS" ELSE "-- MAS"]

\* handleFetchBalance() up to the first await of fetchBalance: the button
\* is disabled and fetch() is called.
HandleFetchBalance(trigger) ==
    IF Trim(addressInput) = ""
    THEN /\ lastCall' = Call(trigger, Null, FALSE, "Please enter an address")
         /\ UNCHANGED <<vaultVars, fetchVars>>
    ELSE /\ InFlight(requests) < MaxRequests
         /\ fetchBtnDisabled' = TRUE
         /\ requests' = [requests EXCEPT !.fetch = @ + 1]
         /\ lastCall' = Call(trigger, Null, FALSE, "")
         /\ UNCHANGED <<vaultVars, addressInput, walletBalance>>

\* A click on the fetch button: a disabled button dispatches no click.
ClickFetch == ~fetchBtnDisabled /\ HandleFetchBalance("click")

\* Enter in the address input: the keypress listener calls the handler.
EnterOnAddress == HandleFetchBalance("enter")

\* A call in flight runs to its return.
Completes(outcome) ==
    /\ fetchBtnDisabled' = FetchBalanceDone(outcome).disabled
    /\ walletBalance' = FetchBalanceDone(outcome).text
    /\ lastCall' = Call("completed", Null, FALSE, FetchBalanceDone(outcome).alert)
    /\ UNCHANGED <<vaultVars, addressInput>>

\* await fetch(..) settles for one of the calls in flight.
FetchSettles(outcome) ==
    /\ requests.fetch > 0
    /\ IF outcome = "response"
       THEN /\ requests' = [fetch |-> requests.fetch - 1, json |-> requests.json + 1]
            /\ lastCall' = Call("response", Null, FALSE, "")
            /\ UNCHANGED <<vaultVars, addressInput, fetchBtnDisabled, walletBalance>>
       ELSE /\ requests' = [requests EXCEPT !.fetch = @ - 1]
            /\ Completes(outcome)

\* await res.json() settles for one of the calls in flight.
JsonSettles(outcome) ==
    /\ requests.json > 0
    /\ requests' = [requests EXCEPT !.json = @ - 1]
    /\ Completes(outcome)

AddressTyped == \E v \in Addresses : TypeAddress(v)

FetchSettled == \E outcome \in FetchOutcomes : FetchSettles(outcome)

JsonSettled == \E outcome \in JsonOutcomes : JsonSettles(outcome)

\* The balance query and the vault share no state, so the query is
\* explored on its own, with the vault left at its defaults.
NextFetch ==
    \/ AddressTyped
    \/ ClickFetch
    \/ EnterOnAddress
    \/ FetchSettled
    \/ JsonSettled
    \/ Reload

SpecFetch == Init /\ [][NextFetch]_vars

\* ================================================================ claims
Positive(x) == Less(Num(0), x)

ProgramState == <<vaultState, autoCompoundInterval, lastOperationId, timers, store>>

\* C1: with finite amounts only and the store written only by saveState,
\* the balance is a finite number >= 0 in every reachable state.
C1_BalanceNonNegative ==
    vaultState.balance.k = "num" /\ Sign(vaultState.balance.c) >= 0

\* A full withdrawal of a balance that carries accrued yield, scheduler live.
C1_Witness ==
    /\ lastCall.op = "withdraw" /\ lastCall.alert = ""
    /\ lastCall.amount.c[2] > 0
    /\ vaultState.balance = Num(0)
    /\ timers # {}

\* C2: withdraw(a) with a > balance raises "Insufficient balance" and changes
\* nothing: vaultState (balance, earnings, apy, autoCompound), the timer
\* handle and the live timers, the last operation id and the stored snapshot.
C2_WithdrawTooMuchRejected ==
    [][(lastCall'.op = "withdraw" /\ Gt(lastCall'.amount, vaultState.balance))
          => /\ lastCall'.alert = "Insufficient balance"
             /\ UNCHANGED ProgramState]_vars

\* A rejected withdrawal in a state with balance, earnings, a live timer, a
\* stored snapshot and an earlier operation id.
C2_Witness ==
    /\ lastCall.op = "withdraw" /\ lastCall.alert = "Insufficient balance"
    /\ Gt(lastCall.amount, vaultState.balance)
    /\ Positive(vaultState.balance) /\ Positive(vaultState.earnings)
    /\ timers # {} /\ store # <<>> /\ lastOperationId # ""

\* C3: deposit(a) with a <= 0 or a not finite (NaN, +Infinity, -Infinity)
\* raises "Please enter a valid amount" and leaves vaultState, the last
\* operation id and the stored snapshot unchanged.
C3_DepositInvalidRejected ==
    [][(/\ lastCall'.op = "deposit"
        /\ (Leq(lastCall'.amount, Num(0)) \/ lastCall'.amount.k # "num"))
          => /\ lastCall'.alert = "Please enter a valid amount"
             /\ UNCHANGED <<vaultState, lastOperationId, store>>]_vars

\* C4: withdraw(a) with 0 < a <= balance succeeds, leaves balance - a and
\* sets earnings to 0.
C4_WithdrawEffect ==
    [][(/\ lastCall'.op = "withdraw"
        /\ Positive(lastCall'.amount)
        /\ Leq(lastCall'.amount, vaultState.balance))
          => /\ lastCall'.alert = ""
             /\ vaultState'.balance = Sub(vaultState.balance, lastCall'.amount)
             /\ vaultState'.earnings = Num(0)]_vars

\* A partial withdrawal of one unit that left a positive balance, after a
\* tick had accrued yield (the balance still carries it).
C4_Witness ==
    /\ lastCall.op = "withdraw" /\ lastCall.alert = ""
    /\ lastCall.amount = Num(1)
    /\ Positive(vaultState.balance) /\ vaultState.balance.c[2] > 0
    /\ vaultState.earnings = Num(0)

\* C5: deposit(a) with a finite and > 0 succeeds, leaves balance + a, and
\* leaves earnings, autoCompound, the timer handle and the timers unchanged.
C5_DepositEffect ==
    [][(/\ lastCall'.op = "deposit"
        /\ lastCall'.amount.k = "num"
        /\ Positive(lastCall'.amount))
          => /\ lastCall'.alert = ""
             /\ vaultState'.balance = Add(vaultState.balance, lastCall'.amount)
             /\ vaultState'.earnings = vaultState.earnings
             /\ vaultState'.autoCompound = vaultState.autoCompound
             /\ UNCHANGED <<autoCompoundInterval, timers>>]_vars

\* A deposit made while earnings are positive and the scheduler is live.
C5_Witness ==
    /\ lastCall.op = "deposit" /\ lastCall.alert = ""
    /\ lastCall.amount = Num(1)
    /\ vaultState.balance.k = "num" /\ vaultState.balance.c[1] = 2
    /\ Positive(vaultState.earnings)
    /\ vaultState.autoCompound /\ timers # {}

\* C6: after a deposit, withdraw, setAutoCompound call or accrual tick (the
\* self-stopping tick included) whose write, if any, succeeds, the stored
\* snapshot equals vaultState in all four fields.
C6_MutationPersisted ==
    [][(\/ \E a \in WithdrawAmounts(AllAmounts) :
              /\ lastCall'.alert = ""
              /\ HandleDeposit(a, TRUE) \/ HandleWithdraw(a, TRUE)
        \/ \E e \in BOOLEAN : HandleAutoCompoundToggle(e, TRUE)
        \/ Tick(TRUE))
          => store' = <<vaultState'>>]_vars

\* C7: between operations, autoCompound is true iff a timer handle is held.
C7_FlagMirrorsTimer ==
    vaultState.autoCompound <=> autoCompoundInterval # NullHandle

\* C8: at most one accrual timer is live, and it is the one whose handle
\* the program holds.
C8_AtMostOneTimer ==
    /\ Cardinality(timers) <= 1
    /\ timers \subseteq {autoCompoundInterval}

\* setAutoCompound(true) has just returned with a timer live and a balance
\* <= 0: the scheduler was already Active when it was called (a start on
\* such a balance is rejected).
C8_Witness ==
    /\ lastCall.op = "toggle" /\ lastCall.enabled
    /\ SelfStops(vaultState)
    /\ Cardinality(timers) = 1

\* C9: setAutoCompound(false) leaves no timer live and no handle held; with
\* no timer live no tick fires, and a timer becomes live again only by
\* setAutoCompound(true) or by init.
C9_StopCancelsTimer ==
    [][/\ (lastCall'.op = "toggle" /\ ~lastCall'.enabled)
             => (timers' = {} /\ autoCompoundInterval' = NullHandle)
       /\ timers = {} => lastCall'.op # "tick"
       /\ (timers = {} /\ timers' # {})
             => \/ lastCall'.op = "toggle" /\ lastCall'.enabled
                \/ lastCall'.op = "init"]_vars

\* setAutoCompound(false) has returned after the scheduler had accrued
\* yield: earnings are positive, no timer is live.
C9_Witness ==
    /\ lastCall.op = "toggle" /\ ~lastCall.enabled
    /\ Positive(vaultState.earnings)
    /\ ~vaultState.autoCompound /\ timers = {}

\* C10: a tick that finds balance <= 0 changes neither balance nor earnings,
\* cancels the timer and clears autoCompound; with a live timer firing
\* fairly this happens unless the balance becomes positive or the timer is
\* cancelled first; and while no timer is live the balance changes only by
\* a deposit, a withdrawal or a reload.
C10_SelfStop ==
    /\ [][/\ (lastCall'.op = "tick" /\ Leq(vaultState.balance, Num(0)))
                => /\ vaultState'.balance = vaultState.balance
                   /\ vaultState'.earnings = vaultState.earnings
                   /\ ~vaultState'.autoCompound
                   /\ timers' = {} /\ autoCompoundInterval' = NullHandle
          /\ (timers = {} /\ vaultState'.balance # vaultState.balance)
                => lastCall'.op \in {"deposit", "withdraw", "init"}]_vars
    /\ (timers # {} /\ Leq(vaultState.balance, Num(0)))
          ~> (timers = {} \/ ~Leq(vaultState.balance, Num(0)))

\* The self-stopping tick has run after a full withdrawal.
C10_Witness ==
    /\ lastCall.op = "tick"
    /\ vaultState.balance = Num(0)
    /\ lastOperationId = "WITHDRAW-t-r"
    /\ ~vaultState.autoCompound /\ timers = {}
    /\ autoCompoundInterval = NullHandle

\* C11: setAutoCompound(true) called with balance <= 0 is rejected: when it
\* returns autoCompound is false and no timer is live (also when the
\* scheduler had been started earlier and the balance withdrawn since).
C11_ToggleOnRejected ==
    [][(/\ lastCall'.op = "toggle" /\ lastCall'.enabled
        /\ Leq(vaultState.balance, Num(0)))
          => /\ ~vaultState'.autoCompound
             /\ timers' = {}]_vars

\* C12: a tick that fires with balance > 0 adds one and the same amount,
\* balance * apy * RHO computed from the balance before the tick, to both
\* balance and earnings, and leaves apy, autoCompound and the timer handle
\* unchanged.
C12_TickEffect ==
    [][(lastCall'.op = "tick" /\ Positive(vaultState.balance))
          => LET compoundAmount == Mul(Mul(vaultState.balance, vaultState.apy), Rho)
             IN  /\ vaultState'.balance = Add(vaultState.balance, compoundAmount)
                 /\ vaultState'.earnings = Add(vaultState.earnings, compoundAmount)
                 /\ vaultState'.apy = vaultState.apy
                 /\ vaultState'.autoCompound = vaultState.autoCompound
                 /\ autoCompoundInterval' = autoCompoundInterval]_vars

\* An accruing tick has just credited a finite yield: the balance is its
\* whole units plus the yield, earnings hold the same yield, the timer is
\* still live.
C12_Witness ==
    /\ lastCall.op = "tick"
    /\ vaultState.balance.k = "num" /\ vaultState.balance.c[1] > 0
    /\ vaultState.balance.c[2] > 0
    /\ vaultState.earnings.k = "num" /\ vaultState.earnings.c[2] = vaultState.balance.c[2]
    /\ vaultState.autoCompound /\ timers = {autoCompoundInterval}

\* A valid VaultState: balance and earnings finite and >= 0, apy any finite
\* number, autoCompound a boolean.
ValidVaultState(vs) ==
    /\ vs.balance.k = "num" /\ Sign(vs.balance.c) >= 0
    /\ vs.earnings.k = "num" /\ Sign(vs.earnings.c) >= 0
    /\ vs.apy.k = "num"
    /\ vs.autoCompound \in BOOLEAN

\* The step is a handler that called saveState() and the write went through.
SavedStep ==
    \/ /\ lastCall'.op = "deposit" /\ lastCall'.alert = ""
       /\ HandleDeposit(lastCall'.amount, TRUE)
    \/ /\ lastCall'.op = "withdraw" /\ lastCall'.alert = ""
       /\ HandleWithdraw(lastCall'.amount, TRUE)
    \/ /\ lastCall'.op = "toggle"
       /\ HandleAutoCompoundToggle(lastCall'.enabled, TRUE)
    \/ /\ lastCall'.op = "tick" /\ ~SelfStops(vaultState)
       /\ Tick(TRUE)

\* C13: round trip: whenever saveState has written a valid VaultState,
\* loadState on a fresh instance (holding the defaults) yields a VaultState
\* equal to the saved one in all four fields.
C13_RoundTrip ==
    [][(SavedStep /\ ValidVaultState(vaultState'))
          => LoadState(DefaultVaultState, store') = vaultState']_vars

\* A page load has read back a snapshot that differs from the defaults in
\* all four fields (it was saved by a tick: no foreign snapshot has positive
\* earnings) and holds exactly what the store holds.
C13_Witness ==
    /\ lastCall.op = "init"
    /\ store = <<vaultState>>
    /\ ValidVaultState(vaultState)
    /\ Positive(vaultState.balance) /\ Positive(vaultState.earnings)
    /\ vaultState.apy = Num(50) /\ vaultState.autoCompound

\* C14: init() on a store that holds no value or an unparseable value leaves
\* VaultState at the defaults, starts no timer and completes normally (no
\* exception out of updateUI, no notice).
C14_LoadNothingKeepsDefaults ==
    [][(/\ lastCall'.op = "init"
        /\ (store = <<>> \/ store = <<Unparseable>>))
          => /\ vaultState' = DefaultVaultState
             /\ timers' = {} /\ autoCompoundInterval' = NullHandle
             /\ ~UpdateUIThrows(vaultState')
             /\ lastCall'.alert = ""]_vars

\* init() has run on an unparseable item: the defaults, no timer.
C14_Witness ==
    /\ lastCall.op = "init"
    /\ store = <<Unparseable>>
    /\ vaultState = DefaultVaultState
    /\ timers = {} /\ lastOperationId = NoOperationId

\* A value a snapshot may validly carry for a number field: balance and
\* earnings finite and >= 0, apy finite.
ValidField(f, v) ==
    /\ v.k = "num"
    /\ f \in {"balance", "earnings"} => Sign(v.c) >= 0

\* C15: init() on a parseable snapshot: a number field that is present with
\* a valid value overwrites the default, one that is absent or carries an
\* invalid value (a negative balance or earnings) keeps its default, so the
\* loaded VaultState has balance >= 0 and earnings >= 0.
C15_OverlayKeepsValid ==
    [][(/\ lastCall'.op = "init"
        /\ store # <<>> /\ store # <<Unparseable>>)
          => /\ \A f \in {"balance", "earnings", "apy"} :
                   vaultState'[f] =
                      IF f \in DOMAIN store[1] /\ ValidField(f, store[1][f])
                      THEN store[1][f] ELSE DefaultVaultState[f]
             /\ Leq(Num(0), vaultState'.balance)
             /\ Leq(Num(0), vaultState'.earnings)]_vars

\* C16: when the write of saveState fails during an accepted deposit or
\* withdrawal, a setAutoCompound call or an accruing tick, the handler still
\* completes with its whole in-memory effect (the one it has when the write
\* succeeds), the scheduler is not stopped by the failure, and the store
\* keeps the snapshot it had.
C16_WriteFailureSwallowed ==
    [][/\ (/\ lastCall'.op = "deposit" /\ lastCall'.alert = ""
           /\ HandleDeposit(lastCall'.amount, FALSE))
             => /\ store' = store
                /\ vaultState' =
                      [vaultState EXCEPT !.balance = Add(@, lastCall'.amount)]
                /\ lastOperationId' = GenerateOperationId("deposit")
                /\ UNCHANGED <<autoCompoundInterval, timers>>
       /\ (/\ lastCall'.op = "withdraw" /\ lastCall'.alert = ""
           /\ HandleWithdraw(lastCall'.amount, FALSE))
             => /\ store' = store
                /\ vaultState' =
                      [vaultState EXCEPT !.balance = Sub(@, lastCall'.amount),
                                         !.earnings = Num(0)]
                /\ lastOperationId' = GenerateOperationId("withdraw")
                /\ UNCHANGED <<autoCompoundInterval, timers>>
       /\ (/\ lastCall'.op = "toggle"
           /\ HandleAutoCompoundToggle(lastCall'.enabled, FALSE))
             => /\ store' = store
                /\ ~lastCall'.enabled
                      => (~vaultState'.autoCompound /\ timers' = {})
                /\ (lastCall'.enabled /\ Positive(vaultState.balance))
                      => (vaultState'.autoCompound /\ Cardinality(timers') = 1)
                /\ UNCHANGED <<lastOperationId>>
       /\ (/\ lastCall'.op = "tick" /\ ~SelfStops(vaultState)
           /\ Tick(FALSE))
             => /\ store' = store
                /\ vaultState'.balance =
                      Add(vaultState.balance, CompoundAmount(vaultState))
                /\ vaultState'.earnings =
                      Add(vaultState.earnings, CompoundAmount(vaultState))
                /\ UNCHANGED <<autoCompoundInterval, timers>>]_vars

\* A tick has accrued while its write failed: the scheduler is still
\* running and the store holds an older snapshot than memory.
C16_Witness ==
    /\ lastCall.op = "tick"
    /\ Positive(vaultState.balance) /\ Positive(vaultState.earnings)
    /\ store # <<>> /\ store # <<Stringify(vaultState)>>
    /\ store[1].earnings = Num(0)
    /\ vaultState.autoCompound /\ timers = {autoCompoundInterval}

\* C17: every balance request, once it has disabled the fetch button,
\* enables it again when it completes, on each outcome (a result, an empty
\* result, an RPC error in the response, a transport or parse failure); and
\* whenever no request is in flight the button is enabled.
C17_BusyCleared ==
    /\ [](InFlight(requests) = 0 => ~fetchBtnDisabled)
    /\ [][lastCall'.op = "completed" => ~fetchBtnDisabled']_vars

\* The only request in flight has just completed by a throw (transport
\* failure, RPC error or unparseable body): notice raised, sentinel shown,
\* button enabled.
C17_Witness ==
    /\ lastCall.op = "completed"
    /\ lastCall.alert = "Failed to fetch balance"
    /\ walletBalance = "-- MAS"
    /\ InFlight(requests) = 0
    /\ ~fetchBtnDisabled

\* C18: while a balance request is in flight the fetch button stays
\* disabled and no second request is started: at most one request is in
\* flight, whatever the order of clicks, Enter keys and completions.
C18_OneRequestInFlight ==
    /\ InFlight(requests) <= 1
    /\ InFlight(requests) > 0 => fetchBtnDisabled

\* C19: init() on a snapshot written by an earlier session: stored
\* autoCompound true and balance > 0 start the scheduler (exactly one timer,
\* flag true); stored autoCompound true and balance <= 0 force the flag to
\* false and start no timer; stored autoCompound false starts no timer.  In
\* all cases balance, earnings and apy in memory equal the stored ones.
C19_SessionRestart ==
    [][(lastCall'.op = "init" /\ store # <<>>)
          => /\ (store[1].autoCompound /\ Positive(store[1].balance))
                   => /\ vaultState'.autoCompound
                      /\ Cardinality(timers') = 1
                      /\ timers' = {autoCompoundInterval'}
             /\ (store[1].autoCompound /\ Leq(store[1].balance, Num(0)))
                   => (~vaultState'.autoCompound /\ timers' = {})
             /\ ~store[1].autoCompound
                   => (~vaultState'.autoCompound /\ timers' = {})
             /\ vaultState'.balance = store[1].balance
             /\ vaultState'.earnings = store[1].earnings
             /\ vaultState'.apy = store[1].apy]_vars

\* C20: deposit, withdraw, setAutoCompound and the ticks (accruing or
\* self-stopping) leave apy as it was at the end of init(), and init()
\* leaves apy = BASE_APY when the store has no item or the item has no apy
\* field.
C20_ApyFixed ==
    [][/\ lastCall'.op \in {"deposit", "withdraw", "toggle", "tick"}
             => vaultState'.apy = vaultState.apy
       /\ (/\ lastCall'.op = "init"
           /\ (store = <<>> \/ "apy" \notin DOMAIN store[1]))
             => vaultState'.apy = Num(BASE_APY)]_vars

\* A full withdrawal after ticks has left an apy that was loaded from the
\* store and is not BASE_APY.
C20_Witness ==
    /\ lastCall.op = "withdraw" /\ lastCall.alert = ""
    /\ lastCall.amount.k = "num" /\ lastCall.amount.c[2] > 0
    /\ vaultState.apy = Num(50)
    /\ vaultState.balance = Num(0)

\* C21: with finite amounts only and a store written only by saveState,
\* 0 <= earnings <= balance in every reachable state; between page loads
\* earnings grow only in a tick, by the amount that tick adds to the
\* balance, and the balance goes down only in a withdrawal, which leaves
\* earnings = 0.
C21_EarningsWithinBalance ==
    /\ [](/\ vaultState.earnings.k = "num" /\ vaultState.balance.k = "num"
          /\ Leq(Num(0), vaultState.earnings)
          /\ Leq(vaultState.earnings, vaultState.balance))
    /\ [][lastCall'.op # "init"
             => /\ Less(vaultState.earnings, vaultState'.earnings)
                      => /\ lastCall'.op = "tick"
                         /\ Sub(vaultState'.earnings, vaultState.earnings)
                               = Sub(vaultState'.balance, vaultState.balance)
                /\ Less(vaultState'.balance, vaultState.balance)
                      => /\ lastCall'.op = "withdraw"
                         /\ vaultState'.earnings = Num(0)]_vars

\* A page load has brought back a snapshot with accrued earnings, below
\* the balance, and has restarted the scheduler.
C21_Witness ==
    /\ lastCall.op = "init"
    /\ Positive(vaultState.earnings)
    /\ Less(vaultState.earnings, vaultState.balance)
    /\ store = <<Stringify(vaultState)>>
    /\ timers # {}

====
